---- MODULE Spec2Model ----
(***************************************************************************)
(* ListKit GTM Intelligence: the customer unification, health scoring and  *)
(* alerting pipeline, as its directives and schema define it.              *)
(*                                                                         *)
(*   SpecScore  the health score calculator applied to bounded inputs      *)
(*   Spec       the sync scripts upserting into unified_customers          *)
(*   SpecAlert  the real-time alert check run by concurrent sync scripts   *)
(*   SpecCooldown  one sync script's alert check over the cooldown periods *)
(*   SpecRate   the notifier's global rate limit on alerts                 *)
(*   SpecOrch   sync_all running the sync script of every source           *)
(*   SpecRun    one adapter's runs: fetch, skip or upsert, finish          *)
(*   SpecQuiet  a customer over the weeks with the syncs on schedule       *)
(*   SpecStatus the new-at-risk alert over consecutive computations        *)
(*                                                                         *)
(* Scores are kept in thousandths of a point (100 points = 100000), the    *)
(* sub-scores in tenths, churn_risk in tenths, timestamps in whole days.   *)
(***************************************************************************)
EXTENDS Integers, Sequences, FiniteSets, TLC

VARIABLES
    cust,       \* SpecScore: the customer record handed to the calculator
    edits,      \* SpecScore: how many columns of cust were set after Init
    res,        \* SpecScore: what the calculator produced for cust
    db,         \* Spec: unified_customers, the set of its rows
    inflight,   \* Spec: facts fetched by an adapter and not yet upserted
    now,        \* Spec, SpecAlert: the clock (NOW), in days
    synced,     \* Spec: per source, the fact upserted last and the newest one
    lastSrc,    \* Spec: the source of the most recent upsert
    merges,     \* Spec: how many upserts have run
    touched,    \* Spec: emails of the rows upserted and not yet rescored by the run
    acust,      \* SpecAlert: the alert-relevant columns of one customer row
    pc,         \* SpecAlert: where each sync script is in the alert check
    alert_history, \* SpecAlert: the alert_history table, in insertion order
    delivered,  \* SpecAlert: the messages handed to Slack, in order
    alerts_sent_this_hour, \* SpecRate: the notifier's count for the clock hour
    queue,      \* SpecRate: alerts queued for the next hour
    half,       \* SpecRate: which half of the clock hour it is (0 or 1)
    sent_prev,  \* SpecRate: alerts posted during the previous half hour
    sent_cur,   \* SpecRate: alerts posted during the current half hour
    rpc,        \* SpecRate: where each sync script is in the throttle check
    decided,    \* SpecRate: alerts the scripts have decided to send
    emitted,    \* SpecRate: alerts posted to Slack
    drained,    \* SpecRate: alerts posted out of the queue
    sync_log,   \* SpecOrch: the sync_log row of each source's run
    orun,       \* SpecOrch: the sync_all run
    source_rec, \* SpecRun: the records the source's API holds
    last_sync_timestamp, \* SpecRun: the value the incremental filter compares with
    run,        \* SpecRun: the adapter's current or last run
    copied      \* SpecRun: per record, the version upserted and the run that did it

scoreVars == <<cust, edits, res>>
unifVars == <<db, inflight, synced, lastSrc, merges, touched>>
alertVars == <<acust, pc, alert_history, delivered>>
rateVars == <<alerts_sent_this_hour, queue, half, sent_prev, sent_cur, rpc, decided, emitted, drained>>
orchVars == <<sync_log, orun>>
runVars == <<source_rec, last_sync_timestamp, run, copied>>
vars == <<cust, edits, res, db, inflight, now, synced, lastSrc, merges, touched, acust, pc, alert_history, delivered,
          alerts_sent_this_hour, queue, half, sent_prev, sent_cur, rpc, decided, emitted, drained,
          sync_log, orun, source_rec, last_sync_timestamp, run, copied>>

(***************************************************************************)
(* Python values.  None is the null of a numeric column, NoneStr the null  *)
(* of a text column.  A null boolean is read only through truthiness       *)
(* (`if x`, `not x`), where it behaves as False, so boolean columns range  *)
(* over BOOLEAN.  An operation Python 3 refuses (None > 30, None / 20)     *)
(* raises TypeError: a result is Ok(v) or Raise.                           *)
(***************************************************************************)
None == -1
NoneStr == "None"

Ok(v) == [ok |-> TRUE, v |-> v]
Raise == [ok |-> FALSE, v |-> 0]

Min(a, b) == IF a <= b THEN a ELSE b
Max(a, b) == IF a >= b THEN a ELSE b

\* x > n, x < n, x >= n as Python evaluates them: TypeError on None.
PyGt(x, n) == IF x = None THEN Raise ELSE Ok(x > n)
PyLt(x, n) == IF x = None THEN Raise ELSE Ok(x < n)
PyGe(x, n) == IF x = None THEN Raise ELSE Ok(x >= n)

\* `if x:` on a number: None and 0 are falsy.
Truthy(x) == x # None /\ x # 0

(***************************************************************************)
(* Factor calculations (sub-scores in tenths of a point).                  *)
(***************************************************************************)
calculate_activity_score(days_since_seen) ==
    IF days_since_seen = None THEN Ok(500)
    ELSE IF days_since_seen <= 1 THEN Ok(1000)
    ELSE IF days_since_seen <= 3 THEN Ok(900)
    ELSE IF days_since_seen <= 7 THEN Ok(800)
    ELSE IF days_since_seen <= 14 THEN Ok(650)
    ELSE IF days_since_seen <= 30 THEN Ok(400)
    ELSE IF days_since_seen <= 60 THEN Ok(200)
    ELSE Ok(0)

sentiment_adjustment(support_sentiment) ==
    CASE support_sentiment = "positive" -> 100
      [] support_sentiment = "negative" -> -200
      [] OTHER -> 0

calculate_support_score(csat_score, support_sentiment, convos_30d) ==
    LET base0 == IF Truthy(csat_score) THEN csat_score * 200 ELSE 700
        base1 == base0 + sentiment_adjustment(support_sentiment)
        high == PyGt(convos_30d, 10)
    IN  IF ~high.ok THEN Raise
        ELSE LET base2 == IF high.v THEN base1 - 10 * Min(convos_30d - 10, 20)
                          ELSE base1
             IN  Ok(Max(0, Min(1000, base2)))

calculate_payment_score(subscription_status, is_delinquent, payment_failures_90d) ==
    LET base0 == CASE subscription_status = "active" /\ ~is_delinquent -> 1000
                   [] subscription_status = "trialing" -> 800
                   [] subscription_status = "past_due" -> 400
                   [] subscription_status = "canceled" -> 0
                   [] subscription_status = "unpaid" -> 200
                   [] OTHER -> 700
        base1 == IF is_delinquent THEN Min(base0, 300) ELSE base0
        base2 == IF Truthy(payment_failures_90d)
                 THEN base1 - 10 * Min(payment_failures_90d * 10, 30)
                 ELSE base1
    IN  Ok(Max(0, base2))

calculate_engagement_score(login_count_30d, onboarding_complete, feature_adoption_count) ==
    IF login_count_30d = None \/ feature_adoption_count = None THEN Raise
    ELSE LET login_score == Min(login_count_30d * 25, 500)
             onboarding_score == IF onboarding_complete THEN 300 ELSE 0
             feature_score == 10 * Min(feature_adoption_count * 4, 20)
         IN  Ok(login_score + onboarding_score + feature_score)

calculate_tenure_score(signup_date, NOW) ==
    IF signup_date = None THEN Ok(500)
    ELSE LET days_as_customer == NOW - signup_date
         IN  IF days_as_customer < 30 THEN Ok(400)
             ELSE IF days_as_customer < 90 THEN Ok(600)
             ELSE IF days_as_customer < 180 THEN Ok(750)
             ELSE IF days_as_customer < 365 THEN Ok(850)
             ELSE Ok(1000)

calculate_mrr_weight(mrr) ==
    IF mrr = None \/ mrr <= 0 THEN Ok(500)
    ELSE IF mrr < 50 THEN Ok(600)
    ELSE IF mrr < 100 THEN Ok(700)
    ELSE IF mrr < 250 THEN Ok(800)
    ELSE IF mrr < 500 THEN Ok(900)
    ELSE Ok(1000)

(***************************************************************************)
(* Risk signal penalties, in thousandths of a point.  Each comparison is   *)
(* made on the raw column, so a null column raises.                        *)
(***************************************************************************)
risk_penalties(c) ==
    LET inactive == PyGt(c.days_since_seen, 30)
        tickets == PyGt(c.open_tickets, 0)
        lowshow == PyLt(c.show_rate, 50)
        booked == IF lowshow.ok /\ lowshow.v THEN PyGe(c.total_calls_booked, 3)
                  ELSE Ok(FALSE)
        highmrr == PyGt(c.mrr, 200)
    IN  IF ~inactive.ok \/ ~tickets.ok \/ ~lowshow.ok \/ ~booked.ok \/ ~highmrr.ok
        THEN Raise
        ELSE Ok( (IF c.mentioned_cancel THEN 30000 ELSE 0)
               + (IF c.is_delinquent THEN 25000 ELSE 0)
               + (IF inactive.v THEN 20000 ELSE 0)
               + (IF tickets.v THEN 1000 * Min(c.open_tickets * 5, 15) ELSE 0)
               + (IF lowshow.v /\ booked.v THEN 10000 ELSE 0)
               + (IF highmrr.v /\ c.next_call_date = None THEN 10000 ELSE 0) )

\* The weighted composite before penalties: tenths times percent.
weighted_score(activity, support, payment, engagement, tenure, mrr_weight) ==
    activity * 25 + support * 20 + payment * 20
        + engagement * 15 + tenure * 10 + mrr_weight * 10

\* The score clamped to 10-100 instead.
clamp_score_from_ten(x) == Max(10000, Min(100000, x))

\* "Final score clamped to 0-100".
clamp_score(x) == Max(0, Min(100000, x))

classify_health_status(health_score) ==
    IF health_score >= 70000 THEN "healthy"
    ELSE IF health_score >= 50000 THEN "at_risk"
    ELSE IF health_score >= 30000 THEN "high_risk"
    ELSE "critical"

(***************************************************************************)
(* Churn risk.  signal_multipliers as fractions; risk_signals is the set of *)
(* keys the caller's dict holds a truthy value for.  The result is         *)
(* round(min(base_risk * multiplier, 100), 1), in tenths.                  *)
(***************************************************************************)
signal_multipliers ==
    [mentioned_cancel |-> <<3, 2>>, is_delinquent |-> <<7, 5>>,
     inactive_30d |-> <<13, 10>>, low_engagement |-> <<6, 5>>,
     no_calls_scheduled |-> <<11, 10>>]

SignalKeys == DOMAIN signal_multipliers

\* The product of the multipliers of S: numerator (i = 1) or denominator (i = 2).
RECURSIVE MultProduct(_, _)
MultProduct(S, i) ==
    IF S = {} THEN 1
    ELSE LET k == CHOOSE x \in S : TRUE
         IN  signal_multipliers[k][i] * MultProduct(S \ {k}, i)

\* round(q / d) to the nearest integer, ties to even.
RoundHalfEven(q, d) ==
    LET f == q \div d
        r == q % d
    IN  IF 2 * r < d THEN f
        ELSE IF 2 * r > d THEN f + 1
        ELSE IF f % 2 = 0 THEN f ELSE f + 1

calculate_churn_risk(health_score, risk_signals) ==
    LET base_risk == 100000 - health_score
        present == risk_signals \cap SignalKeys
        num == base_risk * MultProduct(present, 1)
        den == MultProduct(present, 2)
        capped == IF num <= 100000 * den THEN num ELSE 100000 * den
    IN  RoundHalfEven(capped, den * 100)

(***************************************************************************)
(* Risk signals (the ordered list of signal types) and the recommended     *)
(* action.                                                                 *)
(***************************************************************************)
days_as_customer(c, NOW) == IF c.signup_date = None THEN None ELSE NOW - c.signup_date

\* No risk indicator is stored.
no_risk_signals(c, NOW) == Ok(<<>>)

identify_risk_signals(c, NOW) ==
    LET inactive == PyGt(c.days_since_seen, 30)
        volume == PyGt(c.open_tickets, 3)
        tenure60 == IF c.onboarding_complete THEN Ok(FALSE)
                    ELSE PyGt(days_as_customer(c, NOW), 60)
        Entry(cond, type) == IF cond THEN <<type>> ELSE <<>>
    IN  IF ~inactive.ok \/ ~volume.ok \/ ~tenure60.ok THEN Raise
        ELSE Ok( Entry(c.mentioned_cancel, "cancel_mention")
              \o Entry(c.is_delinquent, "payment_delinquent")
              \o Entry(inactive.v, "inactive")
              \o Entry(Truthy(c.csat_score) /\ c.csat_score <= 2, "low_satisfaction")
              \o Entry(Truthy(c.show_rate) /\ c.show_rate < 50, "low_show_rate")
              \o Entry(volume.v, "support_volume")
              \o Entry(tenure60.v, "onboarding_incomplete") )

\* The severity that identify_risk_signals gives to the entry of each type.
signal_severity(type) ==
    CASE type \in {"cancel_mention", "payment_delinquent"} -> "critical"
      [] type \in {"inactive", "low_satisfaction"} -> "high"
      [] OTHER -> "medium"

HasSignal(risk_signals, type) ==
    \E i \in 1..Len(risk_signals) : risk_signals[i] = type

\* The critical rows in the other order: delinquency before the cancel mention.
recommend_delinquency_first(health_status, risk_signals, c) ==
    IF health_status = "critical" THEN
        IF HasSignal(risk_signals, "payment_delinquent")
            THEN Ok("Urgent: Resolve payment issue")
        ELSE IF HasSignal(risk_signals, "cancel_mention")
            THEN Ok("Urgent: Contact immediately - cancel risk")
        ELSE Ok("Urgent: Schedule retention call")
    ELSE IF health_status = "high_risk" THEN
        IF c.days_since_seen > 30 THEN Ok("Re-engagement campaign needed")
        ELSE IF c.next_call_date = None THEN Ok("Schedule check-in call")
        ELSE Ok("Monitor closely and provide proactive support")
    ELSE IF health_status = "at_risk" THEN
        Ok("Proactive outreach to improve engagement")
    ELSE IF c.mrr > 500 THEN Ok("Explore expansion opportunities")
    ELSE Ok("Maintain current engagement")

recommend_action(health_status, risk_signals, c) ==
    IF health_status = "critical" THEN
        IF HasSignal(risk_signals, "cancel_mention")
            THEN Ok("Urgent: Contact immediately - cancel risk")
        ELSE IF HasSignal(risk_signals, "payment_delinquent")
            THEN Ok("Urgent: Resolve payment issue")
        ELSE Ok("Urgent: Schedule retention call")
    ELSE IF health_status = "high_risk" THEN
        LET inactive == PyGt(c.days_since_seen, 30)
        IN  IF ~inactive.ok THEN Raise
            ELSE IF inactive.v THEN Ok("Re-engagement campaign needed")
            ELSE IF c.next_call_date = None THEN Ok("Schedule check-in call")
            ELSE Ok("Monitor closely and provide proactive support")
    ELSE IF health_status = "at_risk" THEN
        Ok("Proactive outreach to improve engagement")
    ELSE
        LET big == PyGt(c.mrr, 500)
        IN  IF ~big.ok THEN Raise
            ELSE IF big.v THEN Ok("Explore expansion opportunities")
            ELSE Ok("Maintain current engagement")

(***************************************************************************)
(* The calculator: the six factors, the formula, the classification, the  *)
(* churn risk, the signals and the action.  Each factor's own result is    *)
(* kept (score_components); the score exists when no step raised.          *)
(***************************************************************************)
calculate_health_score(c, NOW) ==
    LET activity == calculate_activity_score(c.days_since_seen)
        support == calculate_support_score(c.csat_score, c.support_sentiment, c.convos_30d)
        payment == calculate_payment_score(c.subscription_status, c.is_delinquent,
                                           c.payment_failures_90d)
        engagement == calculate_engagement_score(c.login_count_30d, c.onboarding_complete,
                                                 c.feature_adoption_count)
        tenure == calculate_tenure_score(c.signup_date, NOW)
        mrr_weight == calculate_mrr_weight(c.mrr)
        penalties == risk_penalties(c)
        scored == activity.ok /\ support.ok /\ payment.ok /\ engagement.ok
                    /\ tenure.ok /\ mrr_weight.ok /\ penalties.ok
        health_score ==
            IF scored
            THEN clamp_score(weighted_score(activity.v, support.v, payment.v,
                                            engagement.v, tenure.v, mrr_weight.v)
                             - penalties.v)
            ELSE 0
        health_status == classify_health_status(health_score)
        signals == identify_risk_signals(c, NOW)
        action == IF signals.ok THEN recommend_action(health_status, signals.v, c)
                  ELSE Raise
    IN  [ computed |-> TRUE,
          scored |-> scored,
          ok |-> scored /\ signals.ok /\ action.ok,
          score_components |->
              [activity_score |-> activity, support_score |-> support,
               payment_score |-> payment, engagement_score |-> engagement,
               tenure_score |-> tenure, mrr_weight |-> mrr_weight],
          penalties |-> penalties,
          health_score |-> health_score,
          health_status |-> IF scored THEN health_status ELSE NoneStr,
          churn_risk |-> IF scored THEN calculate_churn_risk(health_score, c.churn_signals)
                         ELSE 0,
          risk_signals |-> signals,
          recommended_action |-> action,
          calculated_at |-> NOW ]

NotComputed == [computed |-> FALSE]

(***************************************************************************)
(* SpecScore: the inputs of the calculator.  A customer starts as one of   *)
(* four anchor records (a new signup with no adapter data, the best and    *)
(* the worst customer, a customer who mentioned canceling) and up to       *)
(* MaxEdits columns are then set to other                                  *)
(* values of their domains before the score is calculated.                 *)
(***************************************************************************)
MaxEdits == 3
CalcDay == 400

FieldDomain ==
    [ days_since_seen |-> {None, 1, 2, 30, 90},
      csat_score |-> {None, 1, 2, 3, 5},
      support_sentiment |-> {NoneStr, "positive", "neutral", "negative"},
      convos_30d |-> {None, 0, 40},
      subscription_status |->
          {NoneStr, "active", "trialing", "past_due", "canceled", "unpaid"},
      is_delinquent |-> BOOLEAN,
      payment_failures_90d |-> {None, 0, 1, 5},
      login_count_30d |-> {None, 0, 10, 20},
      onboarding_complete |-> BOOLEAN,
      feature_adoption_count |-> {None, 0, 5},
      signup_date |-> {None, CalcDay - 365, CalcDay - 100, CalcDay - 20},
      mrr |-> {None, 0, 150, 500, 600},
      mentioned_cancel |-> BOOLEAN,
      open_tickets |-> {None, 0, 1, 4},
      show_rate |-> {None, 0, 40, 100},
      total_calls_booked |-> {None, 0, 3},
      next_call_date |-> {None, CalcDay + 5},
      churn_signals |-> SUBSET SignalKeys ]

ScoreFields == DOMAIN FieldDomain

\* A new signup: no adapter has supplied anything yet.
AllNone ==
    [ days_since_seen |-> None, csat_score |-> None, support_sentiment |-> NoneStr,
      convos_30d |-> None, subscription_status |-> NoneStr, is_delinquent |-> FALSE,
      payment_failures_90d |-> None, login_count_30d |-> None,
      onboarding_complete |-> FALSE, feature_adoption_count |-> None,
      signup_date |-> None, mrr |-> None, mentioned_cancel |-> FALSE,
      open_tickets |-> None, show_rate |-> None, total_calls_booked |-> None,
      next_call_date |-> None, churn_signals |-> {} ]

BestCustomer ==
    [ days_since_seen |-> 1, csat_score |-> 5, support_sentiment |-> "positive",
      convos_30d |-> 0, subscription_status |-> "active", is_delinquent |-> FALSE,
      payment_failures_90d |-> 0, login_count_30d |-> 20,
      onboarding_complete |-> TRUE, feature_adoption_count |-> 5,
      signup_date |-> CalcDay - 365, mrr |-> 600, mentioned_cancel |-> FALSE,
      open_tickets |-> 0, show_rate |-> 100, total_calls_booked |-> 3,
      next_call_date |-> CalcDay + 5, churn_signals |-> {} ]

WorstCustomer ==
    [ days_since_seen |-> 90, csat_score |-> 1, support_sentiment |-> "negative",
      convos_30d |-> 40, subscription_status |-> "canceled", is_delinquent |-> TRUE,
      payment_failures_90d |-> 5, login_count_30d |-> 0,
      onboarding_complete |-> FALSE, feature_adoption_count |-> 0,
      signup_date |-> CalcDay - 20, mrr |-> 600, mentioned_cancel |-> TRUE,
      open_tickets |-> 4, show_rate |-> 0, total_calls_booked |-> 3,
      next_call_date |-> None, churn_signals |-> SignalKeys ]

\* An ordinary paying customer, seen two days ago, who mentioned canceling.
CancelCustomer ==
    [ days_since_seen |-> 2, csat_score |-> 3, support_sentiment |-> "neutral",
      convos_30d |-> 0, subscription_status |-> "active", is_delinquent |-> FALSE,
      payment_failures_90d |-> 1, login_count_30d |-> 10,
      onboarding_complete |-> TRUE, feature_adoption_count |-> 0,
      signup_date |-> CalcDay - 100, mrr |-> 500, mentioned_cancel |-> TRUE,
      open_tickets |-> 1, show_rate |-> 100, total_calls_booked |-> 3,
      next_call_date |-> None, churn_signals |-> {"mentioned_cancel"} ]

\* The state of the sync scripts and of the alert check before anything ran.
StartDay == 100
Sources == {"intercom", "hubspot", "calendly", "userflow"}
NoFact == [source |-> NoneStr]
NeverSynced == [s \in Sources |-> [last |-> NoFact, newest |-> NoFact]]
NoAlertSent ==
    [ mentioned_cancel |-> FALSE, is_delinquent |-> FALSE,
      health_score |-> 80, days_since_seen |-> 5,
      alert_sent_cancel |-> FALSE, alert_sent_delinquent |-> FALSE,
      alert_sent_health_drop |-> FALSE, alert_sent_engagement_drop |-> FALSE,
      last_alert_sent_at |-> None, last_seen_at |-> StartDay - 5 ]
AtCheck(c) ==
    [ stage |-> "check", alert_type |-> NoneStr,
      previous |-> [f \in {"mentioned_cancel", "is_delinquent", "health_score",
                           "days_since_seen"} |-> c[f]] ]

\* sync_log before any run: no row for the source yet.
NoRun == [status |-> NoneStr, sync_type |-> NoneStr, records_synced |-> 0,
          error_message |-> NoneStr, completed_at |-> None]

NoRuns == [source \in Sources |-> NoRun]

\* The records of a source before anything changed, and an adapter that has
\* not run yet.
Recs == 1..2

SourceAtStart == [r \in Recs |-> [updated_at |-> StartDay, valid |-> TRUE]]

NoSyncYet ==
    [ status |-> NoneStr, sync_type |-> NoneStr, started_at |-> None, todo |-> {},
      records_fetched |-> 0, records_synced |-> 0, records_skipped |-> 0,
      error_message |-> NoneStr, last_failed_at |-> None ]

NothingCopied == [r \in Recs |-> [updated_at |-> None, run |-> None]]

\* sync_all before it is started.
NotStarted == [status |-> "idle", sync_type |-> NoneStr]

ScoreInit ==
    /\ cust \in {AllNone, BestCustomer, WorstCustomer, CancelCustomer}
    /\ edits = 0
    /\ res = NotComputed
    /\ db = {} /\ inflight = {} /\ synced = NeverSynced
    /\ lastSrc = NoneStr /\ merges = 0 /\ touched = {} /\ now = StartDay
    /\ acust = NoAlertSent /\ pc = [p \in 1..2 |-> AtCheck(NoAlertSent)]
    /\ alert_history = <<>> /\ delivered = <<>>
    /\ alerts_sent_this_hour = 0 /\ queue = 0 /\ half = 0
    /\ sent_prev = 0 /\ sent_cur = 0 /\ rpc = [p \in 1..2 |-> "idle"]
    /\ decided = 0 /\ emitted = 0 /\ drained = 0
    /\ sync_log = NoRuns /\ orun = NotStarted
    /\ source_rec = SourceAtStart /\ last_sync_timestamp = None
    /\ run = NoSyncYet /\ copied = NothingCopied

\* A source update changes one column of the record before it is scored.
SetInput(f, v) ==
    /\ ~res.computed
    /\ edits < MaxEdits
    /\ v # cust[f]
    /\ cust' = [cust EXCEPT ![f] = v]
    /\ edits' = edits + 1
    /\ UNCHANGED <<res, unifVars, alertVars, now, rateVars, orchVars, runVars>>

\* The calculator runs on the record, at CalcDay or ten days later.
Calculate(t) ==
    /\ ~res.computed
    /\ res' = calculate_health_score(cust, t)
    /\ UNCHANGED <<cust, edits, unifVars, alertVars, now, rateVars, orchVars, runVars>>

ScoreNext ==
    \/ \E f \in ScoreFields : \E v \in FieldDomain[f] : SetInput(f, v)
    \/ \E t \in {CalcDay, CalcDay + 10} : Calculate(t)

(***************************************************************************)
(* Spec: the sync scripts.  Each adapter fetches the source's record for   *)
(* the customer (a fact: source and fetched_at), maps it to its columns    *)
(* of unified_customers and upserts it, matching on the email.             *)
(***************************************************************************)
MaxTicks == 1
MaxInflight == 2
MaxMerges == 2

Days == StartDay..(StartDay + MaxTicks)

\* The customer's address as each source holds it.
SourceEmail(source) == IF source = "intercom" THEN "Ann@x.com" ELSE "ann@x.com"

\* "Match by email (case-insensitive)".
lower(email) == IF email = "Ann@x.com" THEN "ann@x.com" ELSE email
match_email(rows, email) == {r \in rows : lower(r.email) = lower(email)}

\* The rows an adapter's upsert matches.  Only the Intercom directive makes
\* the match case-insensitive; for the other sources email is the match key
\* as it stands, which is also what the UNIQUE constraint on email and the
\* lookup by .eq('email', ...) compare.
match_key(rows, source, email) ==
    IF source = "intercom" THEN match_email(rows, email)
    ELSE {r \in rows : r.email = email}

Facts == [source : Sources, fetched_at : Days]

\* The source's data changes after the first day: what a fetch returns
\* depends on when it was made.
Version(fetched_at) == IF fetched_at = StartDay THEN 1 ELSE 2

(***************************************************************************)
(* The adapters' field mappings (the columns modelled of each).            *)
(***************************************************************************)
IntercomMapping(f) ==
    [ name |-> "Ann (intercom)",
      signup_date |-> StartDay - 89,
      mrr |-> IF Version(f.fetched_at) = 1 THEN 50 ELSE 600,
      days_since_seen |-> 2,
      mentioned_cancel |-> Version(f.fetched_at) = 2 ]

HubSpotMapping(f) ==
    [ name |-> "Ann Lee (hubspot)",
      assigned_am |-> IF Version(f.fetched_at) = 1 THEN "Sam" ELSE "Kim",
      deal_stage |-> "closedwon" ]

CalendlyMapping(f) ==
    [ assigned_am |-> "Cal",
      show_rate |-> IF Version(f.fetched_at) = 1 THEN 100 ELSE 40,
      next_call_date |-> IF Version(f.fetched_at) = 1 THEN StartDay + 30 ELSE None ]

UserflowMapping(f) ==
    [ days_since_seen |-> 40,
      login_count_30d |-> IF Version(f.fetched_at) = 1 THEN 20 ELSE 0 ]

FieldMapping(f) ==
    CASE f.source = "intercom" -> IntercomMapping(f)
      [] f.source = "hubspot" -> HubSpotMapping(f)
      [] f.source = "calendly" -> CalendlyMapping(f)
      [] f.source = "userflow" -> UserflowMapping(f)

\* The columns an adapter's mapping names.
WriteSet(source) ==
    DOMAIN FieldMapping([source |-> source, fetched_at |-> StartDay])

\* The columns no other adapter's mapping names.
ExclusiveColumns(source) ==
    {c \in WriteSet(source) : \A o \in Sources \ {source} : c \notin WriteSet(o)}

(***************************************************************************)
(* The triggers of unified_customers.                                      *)
(***************************************************************************)
calculate_mrr_tier(mrr) ==
    IF mrr = None \/ mrr <= 0 THEN "free"
    ELSE IF mrr < 100 THEN "starter"
    ELSE IF mrr < 300 THEN "growth"
    ELSE IF mrr < 500 THEN "pro"
    ELSE "enterprise"

calculate_tenure_segment(signup, NOW) ==
    IF signup = None THEN "unknown"
    ELSE IF NOW - signup < 90 THEN "new"
    ELSE IF NOW - signup < 365 THEN "established"
    ELSE "veteran"

\* calculate_segments_trigger: BEFORE INSERT OR UPDATE.
update_customer_segments(row, NOW) ==
    [row EXCEPT !.mrr_tier = calculate_mrr_tier(row.mrr),
                !.tenure_segment = calculate_tenure_segment(row.signup_date, NOW),
                !.plan_type = IF row.billing_interval = "year" THEN "annual"
                              ELSE "monthly"]

\* update_unified_customers_updated_at: BEFORE UPDATE.
update_updated_at_column(row, NOW) == [row EXCEPT !.updated_at = NOW]

\* A new row: every column at its schema default.
DefaultRow(email, NOW) ==
    [ email |-> email,
      name |-> NoneStr, signup_date |-> None, mrr |-> None, days_since_seen |-> None,
      mentioned_cancel |-> FALSE, assigned_am |-> NoneStr, deal_stage |-> NoneStr,
      show_rate |-> None, next_call_date |-> None, login_count_30d |-> 0,
      billing_interval |-> NoneStr,
      mrr_tier |-> NoneStr, tenure_segment |-> NoneStr, plan_type |-> NoneStr,
      health_score |-> None, health_status |-> NoneStr, churn_risk |-> None,
      risk_signals |-> <<>>, recommended_action |-> NoneStr,
      health_calculated_at |-> None,
      created_at |-> NOW, updated_at |-> NOW,
      last_sync |-> [s \in Sources |-> None] ]

(***************************************************************************)
(* The upsert of a sync script: "Match by email", "Upsert to               *)
(* unified_customers", "Update last_[source]_sync timestamp".  Every       *)
(* column of the mapping is written from the fact; Calendly writes the     *)
(* account manager only "if not already set".  Nothing compares the fact's *)
(* fetched_at with what is stored.                                         *)
(***************************************************************************)
\* An upsert that adds a fetched amount to the stored one instead of
\* replacing it.
upsert_adding(row, f, NOW) ==
    [c \in DOMAIN row |->
        IF c = "mrr" /\ f.source = "intercom"
        THEN (IF row.mrr = None THEN 0 ELSE row.mrr) + FieldMapping(f).mrr
        ELSE IF c \in DOMAIN FieldMapping(f) THEN FieldMapping(f)[c]
        ELSE IF c = "last_sync" THEN [row.last_sync EXCEPT ![f.source] = NOW]
        ELSE row[c]]

MappedValue(row, f, c) ==
    IF f.source = "calendly" /\ c = "assigned_am" /\ row.assigned_am # NoneStr
    THEN row.assigned_am
    ELSE FieldMapping(f)[c]

upsert(row, f, NOW) ==
    [c \in DOMAIN row |->
        IF c \in DOMAIN FieldMapping(f) THEN MappedValue(row, f, c)
        ELSE IF c = "last_sync" THEN [row.last_sync EXCEPT ![f.source] = NOW]
        ELSE row[c]]

\* The table after the statement and its BEFORE triggers: the matching row
\* is updated, or a row is inserted.
sync_customer(rows, f, NOW) ==
    LET found == match_key(rows, f.source, SourceEmail(f.source))
    IN  IF found # {}
        THEN (rows \ found) \cup
             { update_customer_segments(
                   update_updated_at_column(upsert(r, f, NOW), NOW), NOW) : r \in found }
        ELSE rows \cup
             { update_customer_segments(
                   upsert(DefaultRow(SourceEmail(f.source), NOW), f, NOW), NOW) }

(***************************************************************************)
(* The calculator's view of a row.  Columns of unified_customers that the  *)
(* rows here do not carry are at their schema defaults; the signals given  *)
(* to calculate_churn_risk are the row's own flags.                        *)
(***************************************************************************)
customer_data(row) ==
    [ days_since_seen |-> row.days_since_seen, csat_score |-> None,
      support_sentiment |-> NoneStr, convos_30d |-> 0,
      subscription_status |-> NoneStr, is_delinquent |-> FALSE,
      payment_failures_90d |-> 0, login_count_30d |-> row.login_count_30d,
      onboarding_complete |-> FALSE, feature_adoption_count |-> 0,
      signup_date |-> row.signup_date, mrr |-> row.mrr,
      mentioned_cancel |-> row.mentioned_cancel, open_tickets |-> 0,
      show_rate |-> row.show_rate, total_calls_booked |-> 0,
      next_call_date |-> row.next_call_date,
      churn_signals |-> IF row.mentioned_cancel THEN {"mentioned_cancel"} ELSE {} ]

\* Storage: the UPDATE of the health columns, and its BEFORE triggers.
store_health(row, h, NOW) ==
    update_customer_segments(update_updated_at_column(
        [row EXCEPT !.health_score = h.health_score,
                    !.health_status = h.health_status,
                    !.churn_risk = h.churn_risk,
                    !.risk_signals = h.risk_signals.v,
                    !.recommended_action = h.recommended_action.v,
                    !.health_calculated_at = NOW], NOW), NOW)

(***************************************************************************)
(* Actions of Spec.                                                        *)
(***************************************************************************)
UnifInit ==
    /\ db = {}
    /\ inflight = {}
    /\ synced = NeverSynced
    /\ lastSrc = NoneStr
    /\ merges = 0
    /\ touched = {}
    /\ now = StartDay
    /\ cust = AllNone /\ edits = 0 /\ res = NotComputed
    /\ acust = NoAlertSent /\ pc = [p \in 1..2 |-> AtCheck(NoAlertSent)]
    /\ alert_history = <<>> /\ delivered = <<>>
    /\ alerts_sent_this_hour = 0 /\ queue = 0 /\ half = 0
    /\ sent_prev = 0 /\ sent_cur = 0 /\ rpc = [p \in 1..2 |-> "idle"]
    /\ decided = 0 /\ emitted = 0 /\ drained = 0
    /\ sync_log = NoRuns /\ orun = NotStarted
    /\ source_rec = SourceAtStart /\ last_sync_timestamp = None
    /\ run = NoSyncYet /\ copied = NothingCopied

\* An adapter fetches the source's record of the customer.
Fetch(source) ==
    /\ Cardinality(inflight) < MaxInflight
    /\ inflight' = inflight \cup {[source |-> source, fetched_at |-> now]}
    /\ UNCHANGED <<db, synced, lastSrc, merges, touched, now, scoreVars, alertVars, rateVars, orchVars, runVars>>

\* The emails of the rows an upsert of the fact writes.
touched_emails(rows, f) ==
    LET found == match_key(rows, f.source, SourceEmail(f.source))
    IN  IF found # {} THEN {r.email : r \in found} ELSE {SourceEmail(f.source)}

Newest(old, f) ==
    IF old = NoFact THEN f
    ELSE IF f.fetched_at >= old.fetched_at THEN f
    ELSE old

\* The adapter upserts a fetched fact.  A failed batch is retried, so the
\* fact may stay in flight and be upserted again.
Merge(f, retry) ==
    /\ f \in inflight
    /\ merges < MaxMerges
    /\ db' = sync_customer(db, f, now)
    /\ inflight' = IF retry THEN inflight ELSE inflight \ {f}
    /\ synced' = [synced EXCEPT ![f.source] =
                      [last |-> f, newest |-> Newest(@.newest, f)]]
    /\ lastSrc' = f.source
    /\ merges' = merges + 1
    /\ touched' = touched \cup touched_emails(db, f)
    /\ UNCHANGED <<now, scoreVars, alertVars, rateVars, orchVars, runVars>>

\* "Any source update triggers recalc": the calculator runs on a row and
\* stores the result; when the calculation raises nothing is stored.
Recalculate(row) ==
    /\ row \in db
    /\ LET h == calculate_health_score(customer_data(row), now)
       IN  /\ h.ok
           /\ db' = (db \ {row}) \cup {store_health(row, h, now)}
    /\ lastSrc' = "health"
    /\ touched' = touched \ {row.email}
    /\ UNCHANGED <<inflight, synced, merges, now, scoreVars, alertVars, rateVars, orchVars, runVars>>

\* The calculation raises in the script that upserted the row: the error is
\* logged, nothing is stored and the script goes on to its end.
RecalculateRaises(row) ==
    /\ row \in db
    /\ row.email \in touched
    /\ ~calculate_health_score(customer_data(row), now).ok
    /\ touched' = touched \ {row.email}
    /\ UNCHANGED <<db, inflight, synced, lastSrc, merges, now,
                   scoreVars, alertVars, rateVars, orchVars, runVars>>

Tick ==
    /\ now < StartDay + MaxTicks
    /\ now' = now + 1
    /\ UNCHANGED <<unifVars, scoreVars, alertVars, rateVars, orchVars, runVars>>

UnifNext ==
    \/ \E s \in Sources : Fetch(s)
    \/ \E f \in Facts : \E retry \in BOOLEAN : Merge(f, retry)
    \/ \E row \in db : Recalculate(row)
    \/ \E row \in db : RecalculateRaises(row)
    \/ Tick

(***************************************************************************)
(* SpecAlert: the alert check a sync script runs after updating a          *)
(* customer.  Two sync scripts work on the same customer.  A script        *)
(* updates the row, keeping the values it replaced as the previous ones,   *)
(* then                                                                    *)
(* for an alert type evaluates the condition and the cooldown, posts the   *)
(* message to Slack, inserts the alert_history row, and sets the           *)
(* alert_sent flag.  A script may die between any two of these steps.      *)
(* A script that is not in the middle of sending is at "check", holding    *)
(* the values its last update replaced.                                    *)
(***************************************************************************)
MaxAlerts == 2
MaxElapse == 2
Procs == 1..2

ALERT_COOLDOWNS ==
    [ cancel_mention |-> 7, payment_delinquent |-> 3,
      health_drop |-> 2, engagement_drop |-> 14 ]
AlertTypes == DOMAIN ALERT_COOLDOWNS

\* What a sync can write to the alert-relevant columns.
Calm == [mentioned_cancel |-> FALSE, is_delinquent |-> FALSE,
         health_score |-> 80, days_since_seen |-> 5]
Snapshots ==
    { Calm,
      [Calm EXCEPT !.mentioned_cancel = TRUE],
      [Calm EXCEPT !.is_delinquent = TRUE],
      [Calm EXCEPT !.health_score = 55],
      [Calm EXCEPT !.days_since_seen = 35] }

DataOf(c) == [f \in DOMAIN Calm |-> c[f]]

AlertInit ==
    /\ acust = NoAlertSent
    /\ pc = [p \in Procs |-> AtCheck(NoAlertSent)]
    /\ alert_history = <<>>
    /\ delivered = <<>>
    /\ now = StartDay
    /\ cust = AllNone /\ edits = 0 /\ res = NotComputed
    /\ db = {} /\ inflight = {} /\ synced = NeverSynced
    /\ lastSrc = NoneStr /\ merges = 0 /\ touched = {}
    /\ alerts_sent_this_hour = 0 /\ queue = 0 /\ half = 0
    /\ sent_prev = 0 /\ sent_cur = 0 /\ rpc = [p \in 1..2 |-> "idle"]
    /\ decided = 0 /\ emitted = 0 /\ drained = 0
    /\ sync_log = NoRuns /\ orun = NotStarted
    /\ source_rec = SourceAtStart /\ last_sync_timestamp = None
    /\ run = NoSyncYet /\ copied = NothingCopied

\* The alert conditions of the four throttled categories.
alert_condition(alert_type, c, previous) ==
    CASE alert_type = "cancel_mention" ->
            c.mentioned_cancel /\ ~c.alert_sent_cancel
      [] alert_type = "payment_delinquent" ->
            c.is_delinquent /\ (~previous.is_delinquent \/ ~c.alert_sent_delinquent)
      [] alert_type = "health_drop" ->
            previous.health_score - c.health_score >= 20
      [] alert_type = "engagement_drop" ->
            c.days_since_seen >= 30 /\ previous.days_since_seen < 14

\* Per-customer throttling.
skip_alert(alert_type, c, NOW) ==
    /\ c.last_alert_sent_at # None
    /\ NOW - c.last_alert_sent_at < ALERT_COOLDOWNS[alert_type]

alert_flag(alert_type) ==
    CASE alert_type = "cancel_mention" -> "alert_sent_cancel"
      [] alert_type = "payment_delinquent" -> "alert_sent_delinquent"
      [] alert_type = "health_drop" -> "alert_sent_health_drop"
      [] alert_type = "engagement_drop" -> "alert_sent_engagement_drop"

\* The next sync run of the script upserts the customer and remembers the
\* values it replaced.
SyncCustomer(p, d) ==
    /\ pc[p].stage = "check"
    /\ d # DataOf(acust)
    /\ acust' = [f \in DOMAIN acust |-> IF f \in DOMAIN d THEN d[f] ELSE acust[f]]
    /\ pc' = [pc EXCEPT ![p].previous = DataOf(acust)]
    /\ UNCHANGED <<alert_history, delivered, now, scoreVars, unifVars, rateVars, orchVars, runVars>>

\* The condition holds and the cooldown has passed: the message is posted
\* to the Slack channel.
Send(p, alert_type) ==
    /\ pc[p].stage = "check"
    /\ alert_condition(alert_type, acust, pc[p].previous)
    /\ ~skip_alert(alert_type, acust, now)
    /\ Len(delivered) < MaxAlerts
    /\ delivered' = Append(delivered, [alert_type |-> alert_type, at |-> now])
    /\ pc' = [pc EXCEPT ![p].stage = "record", ![p].alert_type = alert_type]
    /\ UNCHANGED <<acust, alert_history, now, scoreVars, unifVars, rateVars, orchVars, runVars>>

\* The alert is stored: the alert_history row (with the slack_message_ts of
\* the posted message) and the customer's last_alert_sent_at.
Record(p) ==
    /\ pc[p].stage = "record"
    /\ alert_history' = Append(alert_history,
                               [alert_type |-> pc[p].alert_type, sent_at |-> now])
    /\ acust' = [acust EXCEPT !.last_alert_sent_at = now]
    /\ pc' = [pc EXCEPT ![p].stage = "mark"]
    /\ UNCHANGED <<delivered, now, scoreVars, unifVars, rateVars, orchVars, runVars>>

\* customer.alert_sent_<type> = True
Mark(p) ==
    /\ pc[p].stage = "mark"
    /\ acust' = [acust EXCEPT ![alert_flag(pc[p].alert_type)] = TRUE]
    /\ pc' = [pc EXCEPT ![p].stage = "check", ![p].alert_type = NoneStr]
    /\ UNCHANGED <<alert_history, delivered, now, scoreVars, unifVars, rateVars, orchVars, runVars>>

\* The script dies (or the insert raises) part-way; its next run starts
\* from the row as it is.
Crash(p) ==
    /\ pc[p].stage \in {"record", "mark"}
    /\ pc' = [pc EXCEPT ![p] = AtCheck(acust)]
    /\ UNCHANGED <<acust, alert_history, delivered, now, scoreVars, unifVars, rateVars, orchVars, runVars>>

\* A day passes between sync runs.
Elapse ==
    /\ now < StartDay + MaxElapse
    /\ now' = now + 1
    /\ UNCHANGED <<acust, pc, alert_history, delivered, scoreVars, unifVars, rateVars, orchVars, runVars>>

AlertNext ==
    \/ \E p \in Procs : \E d \in Snapshots : SyncCustomer(p, d)
    \/ \E p \in Procs : \E t \in AlertTypes : Send(p, t)
    \/ \E p \in Procs : Record(p)
    \/ \E p \in Procs : Mark(p)
    \/ \E p \in Procs : Crash(p)
    \/ Elapse

(***************************************************************************)
(* One sync script over several weeks: the customer is synced, alerted,    *)
(* and synced again after the cooldown of an alert type has passed.        *)
(***************************************************************************)
MaxWait == 14

\* The cooldown of an alert type passes between two sync runs.
CooldownPasses(alert_type) ==
    /\ pc[1].stage = "check"
    /\ now + ALERT_COOLDOWNS[alert_type] <= StartDay + MaxWait
    /\ now' = now + ALERT_COOLDOWNS[alert_type]
    /\ UNCHANGED <<acust, pc, alert_history, delivered, scoreVars, unifVars, rateVars, orchVars, runVars>>

CooldownNext ==
    \/ \E d \in Snapshots : SyncCustomer(1, d)
    \/ \E t \in AlertTypes : Send(1, t)
    \/ Record(1)
    \/ Mark(1)
    \/ \E t \in AlertTypes : CooldownPasses(t)

SpecCooldown == AlertInit /\ [][CooldownNext]_vars

(***************************************************************************)
(* A customer over the weeks, with the syncs on their schedule: the sync   *)
(* that computes days_since_seen runs at least once a day, so a day passes *)
(* only over a row that was refreshed that day.                            *)
(***************************************************************************)
MaxQuiet == 26

\* days_since_seen = (NOW - last_seen_at) / 86400
calculate_days_since_seen(c, NOW) == NOW - c.last_seen_at

\* The scheduled sync of a customer who has not been seen since the last
\* one: days_since_seen is recomputed, the replaced values are remembered.
SyncQuiet(mentioned_cancel) ==
    SyncCustomer(1, [Calm EXCEPT !.mentioned_cancel = mentioned_cancel,
                                 !.days_since_seen = calculate_days_since_seen(acust, now)])

\* The scheduled sync of a customer who was active today.
SyncActive ==
    /\ pc[1].stage = "check"
    /\ acust.last_seen_at # now
    /\ acust' = [acust EXCEPT !.last_seen_at = now, !.days_since_seen = 0]
    /\ pc' = [pc EXCEPT ![1].previous = DataOf(acust)]
    /\ UNCHANGED <<alert_history, delivered, now, scoreVars, unifVars, rateVars, orchVars, runVars>>

\* The next day begins; today's sync has run.
DayPasses ==
    /\ pc[1].stage = "check"
    /\ acust.days_since_seen = calculate_days_since_seen(acust, now)
    /\ now < StartDay + MaxQuiet
    /\ now' = now + 1
    /\ UNCHANGED <<acust, pc, alert_history, delivered, scoreVars, unifVars, rateVars, orchVars, runVars>>

QuietNext ==
    \/ \E mentioned_cancel \in BOOLEAN : SyncQuiet(mentioned_cancel)
    \/ SyncActive
    \/ \E t \in AlertTypes : Send(1, t)
    \/ Record(1)
    \/ Mark(1)
    \/ DayPasses

SpecQuiet == AlertInit /\ [][QuietNext]_vars

\* The cron jobs keep running: the scheduled sync runs every day, and a
\* script that has an alert to send sends, records and marks it.
SpecQuietLive ==
    /\ SpecQuiet
    /\ WF_vars(\E mentioned_cancel \in BOOLEAN : SyncQuiet(mentioned_cancel))
    /\ WF_vars(DayPasses)
    /\ WF_vars(\E t \in AlertTypes : Send(1, t))
    /\ WF_vars(Record(1))
    /\ WF_vars(Mark(1))

(***************************************************************************)
(* The new-at-risk alert.  After a sync has updated the customer and the   *)
(* health score was recomputed, the script compares the health_status with *)
(* the one it replaced.  The category has no entry in ALERT_COOLDOWNS and  *)
(* no alert_sent flag: the condition alone decides.                        *)
(***************************************************************************)
MaxStatusAlerts == 3

AtRiskStatuses == {"high_risk", "critical"}

\* The health scores a recomputation can store, in points.
StatusSnapshots == { [Calm EXCEPT !.health_score = s] : s \in {80, 55, 40, 35, 20} }

\* The health_status stored with a health_score.
health_status_of(c) == classify_health_status(c.health_score * 1000)

\* The alert is sent at every computation that finds the customer at risk.
at_risk_condition(c, previous) == health_status_of(c) \in AtRiskStatuses

\* if health_status in ["high_risk", "critical"] and
\*    previous_health_status not in ["high_risk", "critical"]
new_at_risk_condition(c, previous) ==
    /\ health_status_of(c) \in AtRiskStatuses
    /\ health_status_of(previous) \notin AtRiskStatuses

\* A sync updates the customer, the score is recomputed, and the at-risk
\* check runs: the alert is posted and stored when the condition holds.
SyncAndCheckStatus(d) ==
    /\ pc[1].stage = "check"
    /\ Len(delivered) < MaxStatusAlerts
    /\ LET previous == DataOf(acust)
           c == [f \in DOMAIN acust |-> IF f \in DOMAIN d THEN d[f] ELSE acust[f]]
       IN  /\ pc' = [pc EXCEPT ![1].previous = previous]
           /\ IF new_at_risk_condition(c, previous)
              THEN /\ delivered' = Append(delivered,
                                          [alert_type |-> "new_at_risk", at |-> now])
                   /\ alert_history' = Append(alert_history,
                                          [alert_type |-> "new_at_risk", sent_at |-> now])
                   /\ acust' = [c EXCEPT !.last_alert_sent_at = now]
              ELSE /\ delivered' = delivered
                   /\ alert_history' = alert_history
                   /\ acust' = c
    /\ UNCHANGED <<now, scoreVars, unifVars, rateVars, orchVars, runVars>>

StatusNext ==
    \/ \E d \in StatusSnapshots : SyncAndCheckStatus(d)
    \/ Elapse

SpecStatus == AlertInit /\ [][StatusNext]_vars

(***************************************************************************)
(* Global rate limiting of alerts.  Every sync script that has an alert to *)
(* send reads the notifier's count for the clock hour, and at the cap      *)
(* queues the alert for the next hour instead of posting it.  The clock is *)
(* kept in half hours, so that the alerts of two adjacent half hours are   *)
(* alerts of one rolling hour.                                             *)
(***************************************************************************)
MAX_ALERTS_PER_HOUR == 20

MaxDecided == 22

rate_limited(sent) == sent >= MAX_ALERTS_PER_HOUR

\* The alert is discarded at the cap instead of being queued.
discard_alert(q) == q

queue_alert_for_next_hour(q) == q + 1

RateInit ==
    /\ alerts_sent_this_hour = 0
    /\ queue = 0
    /\ half = 0
    /\ sent_prev = 0
    /\ sent_cur = 0
    /\ rpc = [p \in Procs |-> "idle"]
    /\ decided = 0
    /\ emitted = 0
    /\ drained = 0
    /\ cust = AllNone /\ edits = 0 /\ res = NotComputed
    /\ db = {} /\ inflight = {} /\ synced = NeverSynced
    /\ lastSrc = NoneStr /\ merges = 0 /\ touched = {} /\ now = StartDay
    /\ acust = NoAlertSent /\ pc = [p \in 1..2 |-> AtCheck(NoAlertSent)]
    /\ alert_history = <<>> /\ delivered = <<>>
    /\ sync_log = NoRuns /\ orun = NotStarted
    /\ source_rec = SourceAtStart /\ last_sync_timestamp = None
    /\ run = NoSyncYet /\ copied = NothingCopied

\* A sync script has an alert to send and runs the check: at the cap the
\* alert is queued, below it the script goes on to post the alert.
Decide(p) ==
    /\ rpc[p] = "idle"
    /\ decided < MaxDecided
    /\ decided' = decided + 1
    /\ IF rate_limited(alerts_sent_this_hour)
       THEN /\ queue' = queue_alert_for_next_hour(queue)
            /\ rpc' = rpc
       ELSE /\ queue' = queue
            /\ rpc' = [rpc EXCEPT ![p] = "send"]
    /\ UNCHANGED <<alerts_sent_this_hour, half, sent_prev, sent_cur, emitted, drained,
                   now, scoreVars, unifVars, alertVars, orchVars, runVars>>

\* The script posts the alert it decided to send, and the post is counted.
Emit(p) ==
    /\ rpc[p] = "send"
    /\ alerts_sent_this_hour' = alerts_sent_this_hour + 1
    /\ sent_cur' = sent_cur + 1
    /\ emitted' = emitted + 1
    /\ rpc' = [rpc EXCEPT ![p] = "idle"]
    /\ UNCHANGED <<queue, half, sent_prev, decided, drained,
                   now, scoreVars, unifVars, alertVars, orchVars, runVars>>

\* Half an hour passes; with the second half the clock hour ends and the
\* count of "this hour" starts again.
HalfHour ==
    /\ half' = 1 - half
    /\ sent_prev' = sent_cur
    /\ sent_cur' = 0
    /\ alerts_sent_this_hour' = IF half = 1 THEN 0 ELSE alerts_sent_this_hour
    /\ UNCHANGED <<queue, rpc, decided, emitted, drained,
                   now, scoreVars, unifVars, alertVars, orchVars, runVars>>

\* The notifier posts a queued alert once the count is below the cap again.
Drain ==
    /\ queue > 0
    /\ ~rate_limited(alerts_sent_this_hour)
    /\ queue' = queue - 1
    /\ alerts_sent_this_hour' = alerts_sent_this_hour + 1
    /\ sent_cur' = sent_cur + 1
    /\ emitted' = emitted + 1
    /\ drained' = drained + 1
    /\ UNCHANGED <<half, sent_prev, rpc, decided,
                   now, scoreVars, unifVars, alertVars, orchVars, runVars>>

RateNext ==
    \/ \E p \in Procs : Decide(p)
    \/ \E p \in Procs : Emit(p)
    \/ HalfHour
    \/ Drain

SpecRate == RateInit /\ [][RateNext]_vars

\* The engine keeps running: the clock advances, a script that decided to
\* post does post, and the notifier keeps serving its queue.
SpecRateLive ==
    /\ SpecRate
    /\ WF_vars(HalfHour)
    /\ WF_vars(Drain)
    /\ \A p \in Procs : WF_vars(Emit(p))

(***************************************************************************)
(* sync_all: the orchestrator starts the sync script of every source, each *)
(* script logs its run in sync_log (running, then completed or failed),    *)
(* and sync_all is done when every run has ended.  The scripts are         *)
(* independent of each other, their steps interleave.                      *)
(***************************************************************************)
MaxRecords == 2

SyncTypes == {"incremental", "full"}

Finalized == {"completed", "failed"}

\* A fatal failure of one sync script ends every run that has not ended.
abort_all(log, source, error) ==
    [o \in DOMAIN log |->
        IF log[o].status \in Finalized THEN log[o]
        ELSE [log[o] EXCEPT !.status = "failed", !.error_message = error]]

\* A fatal failure of the source's sync script ends its own run as failed.
fail_run(log, source, error) ==
    [log EXCEPT ![source].status = "failed", ![source].error_message = error]

OrchInit ==
    /\ sync_log = NoRuns
    /\ orun = NotStarted
    /\ source_rec = SourceAtStart /\ last_sync_timestamp = None
    /\ run = NoSyncYet /\ copied = NothingCopied
    /\ cust = AllNone /\ edits = 0 /\ res = NotComputed
    /\ db = {} /\ inflight = {} /\ synced = NeverSynced
    /\ lastSrc = NoneStr /\ merges = 0 /\ touched = {} /\ now = StartDay
    /\ acust = NoAlertSent /\ pc = [p \in 1..2 |-> AtCheck(NoAlertSent)]
    /\ alert_history = <<>> /\ delivered = <<>>
    /\ alerts_sent_this_hour = 0 /\ queue = 0 /\ half = 0
    /\ sent_prev = 0 /\ sent_cur = 0 /\ rpc = [p \in 1..2 |-> "idle"]
    /\ decided = 0 /\ emitted = 0 /\ drained = 0

\* python -m execution.sync.sync_all [--full]
StartAll(sync_type) ==
    /\ orun.status = "idle"
    /\ orun' = [status |-> "running", sync_type |-> sync_type]
    /\ UNCHANGED <<sync_log, now, scoreVars, unifVars, alertVars, rateVars, runVars>>

\* The sync script of a source starts and opens its sync_log row.
StartRun(source) ==
    /\ orun.status = "running"
    /\ sync_log[source].status = NoneStr
    /\ sync_log' = [sync_log EXCEPT ![source].status = "running",
                                    ![source].sync_type = orun.sync_type]
    /\ UNCHANGED <<orun, now, scoreVars, unifVars, alertVars, rateVars, runVars>>

\* A record is counted for the source whatever the state of its run.
SyncRecordAnyTime(source) ==
    /\ sync_log[source].status # NoneStr
    /\ sync_log[source].records_synced < MaxRecords
    /\ sync_log' = [sync_log EXCEPT ![source].records_synced = @ + 1]
    /\ UNCHANGED <<orun, now, scoreVars, unifVars, alertVars, rateVars, runVars>>

\* The script upserts one more record.
SyncRecord(source) ==
    /\ sync_log[source].status = "running"
    /\ sync_log[source].records_synced < MaxRecords
    /\ sync_log' = [sync_log EXCEPT ![source].records_synced = @ + 1]
    /\ UNCHANGED <<orun, now, scoreVars, unifVars, alertVars, rateVars, runVars>>

\* The script logs its metrics and ends.
CompleteRun(source) ==
    /\ sync_log[source].status = "running"
    /\ sync_log' = [sync_log EXCEPT ![source].status = "completed",
                                    ![source].completed_at = now]
    /\ UNCHANGED <<orun, now, scoreVars, unifVars, alertVars, rateVars, runVars>>

\* The script fails fatally (missing credentials, retries exhausted).
FailRun(source) ==
    /\ sync_log[source].status = "running"
    /\ sync_log' = [fail_run(sync_log, source, "fatal")
                        EXCEPT ![source].completed_at = now]
    /\ UNCHANGED <<orun, now, scoreVars, unifVars, alertVars, rateVars, runVars>>

\* Every sync script has ended: sync_all is done.
CompleteAll ==
    /\ orun.status = "running"
    /\ \A source \in Sources : sync_log[source].status \in Finalized
    /\ orun' = [orun EXCEPT !.status = "completed"]
    /\ UNCHANGED <<sync_log, now, scoreVars, unifVars, alertVars, rateVars, runVars>>

OrchNext ==
    \/ \E sync_type \in SyncTypes : StartAll(sync_type)
    \/ \E source \in Sources : StartRun(source)
    \/ \E source \in Sources : SyncRecord(source)
    \/ \E source \in Sources : CompleteRun(source)
    \/ \E source \in Sources : FailRun(source)
    \/ CompleteAll

SpecOrch == OrchInit /\ [][OrchNext]_vars

\* sync_all is started, every script it starts runs to its end (completed
\* or failed), and sync_all ends when they all have.
SpecOrchLive ==
    /\ SpecOrch
    /\ WF_vars(\E sync_type \in SyncTypes : StartAll(sync_type))
    /\ \A source \in Sources : WF_vars(StartRun(source))
    /\ \A source \in Sources : WF_vars(CompleteRun(source) \/ FailRun(source))
    /\ WF_vars(CompleteAll)

(***************************************************************************)
(* One adapter over several runs.  The source's records change between and *)
(* during runs; a run fetches (all records, or those updated since         *)
(* last_sync_timestamp), processes the fetched records one by one,         *)
(* skipping the malformed ones, and ends.  Here the clock counts instants: *)
(* every change and every start of a run has a timestamp of its own.       *)
(***************************************************************************)
MaxInstants == 5

\* The incremental filter: "field": "updated_at", "operator": ">",
\* "value": last_sync_timestamp.
changed_since(rec, timestamp) == timestamp = None \/ rec.updated_at > timestamp

\* What the source's API returns to a run.
fetch_records(sync_type, timestamp) ==
    { [id |-> r, updated_at |-> source_rec[r].updated_at, valid |-> source_rec[r].valid] :
        r \in { x \in Recs : sync_type = "full"
                             \/ changed_since(source_rec[x], timestamp) } }

\* A run is counted as completed whatever it skipped.
always_completed(fetched, skipped) == "completed"

\* The status a run ends with once every fetched record was processed.
final_status(fetched, skipped) ==
    IF fetched > 0 /\ skipped = fetched THEN "failed" ELSE "completed"

\* The starting point moves to the start of whatever run ended last.
advance_always(r, timestamp) == r.started_at

\* The starting point of the next incremental run: the start of the last
\* successful run.
next_sync_timestamp(r, timestamp) ==
    IF r.status = "completed" THEN r.started_at ELSE timestamp

RunInit ==
    /\ source_rec = SourceAtStart
    /\ last_sync_timestamp = None
    /\ run = NoSyncYet
    /\ copied = NothingCopied
    /\ now = StartDay
    /\ cust = AllNone /\ edits = 0 /\ res = NotComputed
    /\ db = {} /\ inflight = {} /\ synced = NeverSynced
    /\ lastSrc = NoneStr /\ merges = 0 /\ touched = {}
    /\ acust = NoAlertSent /\ pc = [p \in 1..2 |-> AtCheck(NoAlertSent)]
    /\ alert_history = <<>> /\ delivered = <<>>
    /\ alerts_sent_this_hour = 0 /\ queue = 0 /\ half = 0
    /\ sent_prev = 0 /\ sent_cur = 0 /\ rpc = [p \in 1..2 |-> "idle"]
    /\ decided = 0 /\ emitted = 0 /\ drained = 0
    /\ sync_log = NoRuns /\ orun = NotStarted

\* A record changes at the source, to a well-formed or a malformed value.
ChangeRecord(r, valid) ==
    /\ now < StartDay + MaxInstants
    /\ now' = now + 1
    /\ source_rec' = [source_rec EXCEPT ![r] = [updated_at |-> now + 1, valid |-> valid]]
    /\ UNCHANGED <<last_sync_timestamp, run, copied,
                   scoreVars, unifVars, alertVars, rateVars, orchVars>>

\* sync_newsource(incremental): the run starts and fetches.
StartSync(sync_type) ==
    /\ run.status # "running"
    /\ now < StartDay + MaxInstants
    /\ now' = now + 1
    /\ LET fetched == fetch_records(sync_type, last_sync_timestamp)
       IN  run' = [ status |-> "running", sync_type |-> sync_type,
                    started_at |-> now + 1, todo |-> fetched,
                    records_fetched |-> Cardinality(fetched),
                    records_synced |-> 0, records_skipped |-> 0,
                    error_message |-> NoneStr,
                    last_failed_at |-> IF run.status = "failed" THEN run.started_at
                                       ELSE run.last_failed_at ]
    /\ UNCHANGED <<source_rec, last_sync_timestamp, copied,
                   scoreVars, unifVars, alertVars, rateVars, orchVars>>

\* The next fetched record: upserted, or skipped with a warning when it is
\* malformed.
ProcessRecord(rec) ==
    /\ run.status = "running"
    /\ rec \in run.todo
    /\ IF rec.valid
       THEN /\ copied' = [copied EXCEPT ![rec.id] =
                            [updated_at |-> rec.updated_at, run |-> run.started_at]]
            /\ run' = [run EXCEPT !.todo = @ \ {rec}, !.records_synced = @ + 1]
       ELSE /\ copied' = copied
            /\ run' = [run EXCEPT !.todo = @ \ {rec}, !.records_skipped = @ + 1]
    /\ UNCHANGED <<source_rec, last_sync_timestamp, now,
                   scoreVars, unifVars, alertVars, rateVars, orchVars>>

\* The run fails fatally before it has processed every record.
FailSync ==
    /\ run.status = "running"
    /\ run.todo # {}
    /\ run' = [run EXCEPT !.status = "failed", !.error_message = "fatal"]
    /\ last_sync_timestamp' = next_sync_timestamp(run', last_sync_timestamp)
    /\ UNCHANGED <<source_rec, copied, now,
                   scoreVars, unifVars, alertVars, rateVars, orchVars>>

\* Every fetched record was processed: the run ends.
FinishSync ==
    /\ run.status = "running"
    /\ run.todo = {}
    /\ run' = [run EXCEPT
                 !.status = final_status(run.records_fetched, run.records_skipped),
                 !.error_message =
                     IF final_status(run.records_fetched, run.records_skipped) = "failed"
                     THEN "every record skipped" ELSE NoneStr]
    /\ last_sync_timestamp' = next_sync_timestamp(run', last_sync_timestamp)
    /\ UNCHANGED <<source_rec, copied, now,
                   scoreVars, unifVars, alertVars, rateVars, orchVars>>

RunNext ==
    \/ \E r \in Recs : \E valid \in BOOLEAN : ChangeRecord(r, valid)
    \/ \E sync_type \in SyncTypes : StartSync(sync_type)
    \/ \E rec \in run.todo : ProcessRecord(rec)
    \/ FailSync
    \/ FinishSync

SpecRun == RunInit /\ [][RunNext]_vars

(***************************************************************************)
(* The specifications of the calculator, the sync scripts and the alert check.*)
(***************************************************************************)
SpecScore == ScoreInit /\ [][ScoreNext]_vars

Spec == UnifInit /\ [][UnifNext]_vars

SpecAlert == AlertInit /\ [][AlertNext]_vars

(***************************************************************************)
(* Properties of the calculator (SpecScore).                               *)
(***************************************************************************)

\* C1: for every customer record, nulls included, the calculation yields a
\* health_score between 0 and 100 and a churn_risk between 0 and 100.
C1_ScoresInRange ==
    res.computed =>
        /\ res.scored
        /\ res.health_score \in 0..100000
        /\ res.churn_risk \in 0..1000

\* C8: scoring the customer whose every column is null completes without
\* error, with a health_score between 50 and 60 and a health_status of
\* at_risk or healthy.
C8_AllNullIsNeutral ==
    (res.computed /\ cust = AllNone) =>
        /\ res.ok
        /\ res.health_score \in 50000..60000
        /\ res.health_status \in {"at_risk", "healthy"}

\* C9: for every customer record, nulls included, each of the six
\* sub-scores is computed without failing and lies between 0 and 100, and
\* a factor without data has its neutral value (activity 50, support 70,
\* payment 70, tenure 50, MRR weight 50).
C9_SubScoresDefined ==
    res.computed =>
        /\ \A k \in DOMAIN res.score_components :
              /\ res.score_components[k].ok
              /\ res.score_components[k].v \in 0..1000
        /\ cust.days_since_seen = None => res.score_components.activity_score.v = 500
        /\ (cust.csat_score = None /\ cust.support_sentiment = NoneStr
            /\ cust.convos_30d = None) => res.score_components.support_score.v = 700
        /\ (cust.subscription_status = NoneStr /\ ~cust.is_delinquent
            /\ cust.payment_failures_90d = None)
              => res.score_components.payment_score.v = 700
        /\ cust.signup_date = None => res.score_components.tenure_score.v = 500
        /\ cust.mrr = None => res.score_components.mrr_weight.v = 500

(***************************************************************************)
(* Properties of the sync scripts (Spec).                                  *)
(***************************************************************************)

\* The columns of each adapter's own field group.
OwnedColumns ==
    [ intercom |-> {"mrr", "mentioned_cancel"},
      hubspot |-> {"deal_stage"},
      calendly |-> {"show_rate", "next_call_date"},
      userflow |-> {"days_since_seen", "login_count_30d"} ]

\* C2: in whatever order the facts of different adapters are merged into a
\* customer's row, the columns of each adapter's own group hold the values
\* of the fact that adapter merged last: no adapter's update is lost.
C2_NoUpdateLost ==
    \A r \in db : \A s \in Sources :
        synced[s].last # NoFact =>
            \A c \in OwnedColumns[s] : r[c] = FieldMapping(synced[s].last)[c]

\* This step is an upsert.
IsMerge == merges' = merges + 1

\* C3: a merge into an existing row changes only the columns the merging
\* adapter maps, updated_at and that adapter's last-sync time: the columns
\* of the other adapters, the health columns, created_at and everything
\* else stay as they were.
C3_MergeFrame ==
    [][ IsMerge =>
          \A r \in db : \E r2 \in db' :
              /\ \A c \in DOMAIN r \ (WriteSet(lastSrc') \cup {"updated_at", "last_sync"}) :
                    r2[c] = r[c]
              /\ \A o \in Sources \ {lastSrc'} :
                    /\ r2.last_sync[o] = r.last_sync[o]
                    /\ \A c \in WriteSet(o) : r2[c] = r[c] ]_vars

\* This step upserts again the fact that the previous upsert wrote.
IsReplay ==
    /\ IsMerge
    /\ lastSrc \in Sources
    /\ lastSrc' = lastSrc
    /\ synced'[lastSrc].last = synced[lastSrc].last

C10_NewestFactWins ==
    \A r \in db : \A s \in Sources :
        synced[s].newest # NoFact =>
            \A c \in ExclusiveColumns(s) : r[c] = FieldMapping(synced[s].newest)[c]

(***************************************************************************)
(* Properties of the alert check (SpecAlert).                              *)
(***************************************************************************)

\* C5: no two alert_history rows of the customer with the same alert type
\* lie within that type's cooldown of each other.
C5_OneRecordPerCooldown ==
    \A i, j \in DOMAIN alert_history :
        (i < j /\ alert_history[i].alert_type = alert_history[j].alert_type) =>
            alert_history[j].sent_at - alert_history[i].sent_at
                >= ALERT_COOLDOWNS[alert_history[i].alert_type]

\* C6: two sync scripts are never both between the check of the same alert
\* type and the update that follows the send: at most one of them emits.
C6_AtMostOneEmits ==
    \A p, q \in Procs :
        (p # q /\ pc[p].stage # "check" /\ pc[q].stage # "check") =>
            pc[p].alert_type # pc[q].alert_type

\* C7: a message is handed to Slack only after its alert_history row was
\* stored, and no alert type is delivered a second time within its cooldown,
\* whatever fails or dies on the way.
C7_RecordedThenDeliveredOnce ==
    /\ Len(delivered) <= Len(alert_history)
    /\ \A i, j \in DOMAIN delivered :
          (i < j /\ delivered[i].alert_type = delivered[j].alert_type) =>
              delivered[j].at - delivered[i].at
                  >= ALERT_COOLDOWNS[delivered[i].alert_type]

\* C11: no column is in the field mapping of two different adapters: any
\* two adapters that have synced the customer wrote disjoint sets of
\* columns (the email key and the metadata aside).
C11_DisjointWriteSets ==
    \A s1, s2 \in Sources :
        (s1 # s2 /\ synced[s1].last # NoFact /\ synced[s2].last # NoFact) =>
            WriteSet(s1) \cap WriteSet(s2) = {}

\* C12: in every reachable state the alerts emitted within the last rolling
\* hour (the previous half hour and the current one) number at most
\* MAX_ALERTS_PER_HOUR.
C12_RollingHourCap == sent_prev + sent_cur <= MAX_ALERTS_PER_HOUR

\* C13: an alert decided while the cap is reached is put in the queue; no
\* alert is ever discarded (every decided alert is posted, queued, or about
\* to be posted); and while the engine keeps running every queued alert is
\* eventually posted, in a later hour.
C13_QueuedNeverLost ==
    /\ [][(decided' = decided + 1 /\ rate_limited(alerts_sent_this_hour))
            => queue' = queue + 1]_vars
    /\ [](decided = emitted + queue + Cardinality({p \in Procs : rpc[p] = "send"}))
    /\ [][queue' < queue => (drained' = drained + 1 /\ emitted' = emitted + 1
                             /\ ~rate_limited(alerts_sent_this_hour))]_vars
    /\ ((queue > 0) ~> (queue = 0))

\* C13 witness: alerts were queued at the cap and have all been posted out
\* of the queue in a later hour.
C13_QueuedThenEmitted == drained > 0 /\ queue = 0 /\ decided > MAX_ALERTS_PER_HOUR

\* The trigger of an alert type is observed anew by a sync run: the update
\* brings in what the alert is about.
trigger_observed(alert_type, c, previous) ==
    CASE alert_type = "cancel_mention" ->
            c.mentioned_cancel /\ ~previous.mentioned_cancel
      [] alert_type = "payment_delinquent" ->
            c.is_delinquent /\ ~previous.is_delinquent
      [] alert_type = "health_drop" ->
            previous.health_score - c.health_score >= 20
      [] alert_type = "engagement_drop" ->
            c.days_since_seen >= 30 /\ previous.days_since_seen < 14

\* C14: a (customer, alert type) pair whose alert was sent is not_sent again
\* once the cooldown has elapsed: a sync run that then observes the trigger
\* again finds the alert condition true, so that a new alert is emitted.
C14_RearmedAfterCooldown ==
    [][\A t \in AlertTypes :
        ( /\ pc[1].stage = "check" /\ pc'[1].stage = "check"
          /\ acust' # acust
          /\ \E i \in 1..Len(alert_history) : alert_history[i].alert_type = t
          /\ ~skip_alert(t, acust', now')
          /\ trigger_observed(t, acust', pc'[1].previous) )
        => alert_condition(t, acust', pc'[1].previous)]_vars

\* C15: a fatal failure of one adapter marks only that adapter's sync_log
\* row failed and leaves the other rows and sync_all as they are; sync_all
\* completes only when every adapter has finalized; and after a failure the
\* other adapters still run to their end and sync_all completes.
C15_FailureIsolated ==
    /\ [][\A s \in Sources :
            (sync_log[s].status # "failed" /\ sync_log'[s].status = "failed") =>
                /\ \A o \in Sources \ {s} : sync_log'[o] = sync_log[o]
                /\ orun' = orun]_vars
    /\ [](orun.status = "completed" =>
            \A s \in Sources : sync_log[s].status \in Finalized)
    /\ \A s \in Sources :
          (sync_log[s].status = "failed") ~>
              ( /\ orun.status = "completed"
                /\ \A o \in Sources : sync_log[o].status \in Finalized )

\* C15 witness: one adapter failed, the three others completed with their
\* records synced, and sync_all completed.
C15_OneFailedOthersCompleted ==
    /\ orun.status = "completed"
    /\ sync_log["intercom"].status = "failed"
    /\ \A o \in Sources \ {"intercom"} :
          sync_log[o].status = "completed" /\ sync_log[o].records_synced > 0

\* The actions recommend_action returns for a critical customer.
UrgentActions ==
    { "Urgent: Contact immediately - cancel risk",
      "Urgent: Resolve payment issue",
      "Urgent: Schedule retention call" }

\* The scenario of C16 and C17: mrr 500, not delinquent, seen two days ago.
CancelScenario(c) == c.mrr = 500 /\ ~c.is_delinquent /\ c.days_since_seen = 2

WithCancel(flag) ==
    calculate_health_score([cust EXCEPT !.mentioned_cancel = flag], res.calculated_at)

C18_InactiveChurnedCritical ==
    (res.computed /\ res.scored /\ cust.subscription_status = "canceled"
        /\ cust.days_since_seen # None /\ cust.days_since_seen >= 90) =>
        /\ res.score_components.payment_score.v = 0
        /\ res.score_components.activity_score.v = 0
        /\ res.health_status = "critical"

\* C19: every customer who mentioned canceling and is delinquent, once
\* scored, has a health_score below 30 points and health_status critical.
C19_CancelAndDelinquentCritical ==
    (res.computed /\ res.scored /\ cust.mentioned_cancel /\ cust.is_delinquent) =>
        res.health_score < 30000 /\ res.health_status = "critical"

\* The derived columns a calculation stores, apart from its timestamp.
DerivedOutput(r) ==
    [f \in DOMAIN r \ {"calculated_at", "computed"} |-> r[f]]

\* C20: calculating the health score of the same record a second time, ten
\* days earlier or later, yields the same score_components and the same
\* derived output as the first calculation.
C20_SameRecordSameScore ==
    res.computed =>
        \A t \in {CalcDay, CalcDay + 10} :
            /\ calculate_health_score(cust, t).score_components = res.score_components
            /\ DerivedOutput(calculate_health_score(cust, t)) = DerivedOutput(res)

C22_OneRowPerEmail ==
    \A r1, r2 \in db : lower(r1.email) = lower(r2.email) => r1 = r2

\* The derived group of the row is what the calculator gives for the row's
\* own columns at the time the group was stored.
DerivedIsCurrent(row) ==
    /\ row.health_calculated_at # None
    /\ LET h == calculate_health_score(customer_data(row), row.health_calculated_at)
       IN  /\ h.ok
           /\ row.health_score = h.health_score
           /\ row.health_status = h.health_status
           /\ row.churn_risk = h.churn_risk
           /\ row.risk_signals = h.risk_signals.v

\* C23: once the sync runs that upserted a row have completed (the row is
\* no longer awaiting its recalculation), the stored health_score,
\* health_status, churn_risk and risk_signals of the row are those the
\* calculator gives for the row as it now is.
C23_TouchedRowsRescored ==
    \A row \in db : row.email \notin touched => DerivedIsCurrent(row)

\* C24: a failed run does not advance the starting point of the incremental
\* runs, and an incremental run fetches every record changed since the last
\* successful run: whenever a run has completed, every well-formed record
\* changed before that run started has been upserted in its current version,
\* so no changed record is passed over by all later incremental runs.
C24_NoChangeSkipped ==
    /\ [][run'.status = "failed" => last_sync_timestamp' = last_sync_timestamp]_vars
    /\ [][(run.status # "running" /\ run'.status = "running"
              /\ run'.sync_type = "incremental") =>
            \A r \in Recs : changed_since(source_rec[r], last_sync_timestamp) =>
                \E rec \in run'.todo : rec.id = r]_vars
    /\ [](run.status = "completed" =>
            \A r \in Recs :
                (source_rec[r].valid /\ source_rec[r].updated_at < run.started_at) =>
                    copied[r].updated_at = source_rec[r].updated_at)

\* C24 witness: a run failed with a changed record unprocessed, and a later
\* incremental run fetched that record and completed.
C24_CaughtUpAfterFailure ==
    /\ run.status = "completed"
    /\ run.sync_type = "incremental"
    /\ last_sync_timestamp = run.started_at
    /\ run.last_failed_at # None
    /\ \E r \in Recs :
          /\ copied[r].run = run.started_at
          /\ copied[r].updated_at > StartDay
          /\ copied[r].updated_at < run.last_failed_at

\* C25: a malformed record is skipped: the skipped counter goes up by one, the
\* run keeps running and keeps its other records to process; a run that has
\* processed every fetched record ends completed when at least one of them
\* was not skipped and failed when all of them were skipped.
C25_SkipDoesNotFailRun ==
    /\ [][\A rec \in run.todo :
            (run.status = "running" /\ ~rec.valid /\ rec \notin run'.todo) =>
                /\ run'.status = "running"
                /\ run'.records_skipped = run.records_skipped + 1
                /\ run'.records_synced = run.records_synced
                /\ run'.todo = run.todo \ {rec}
                /\ copied' = copied]_vars
    /\ [][(run.status = "running" /\ run.todo = {} /\ run'.status # "running") =>
            /\ run.records_synced + run.records_skipped = run.records_fetched
            /\ run.records_skipped < run.records_fetched => run'.status = "completed"
            /\ (run.records_fetched > 0 /\ run.records_skipped = run.records_fetched)
                   => run'.status = "failed"]_vars
    /\ []((run.status \in {"completed", "failed"} /\ run.error_message # "fatal") =>
            /\ run.todo = {}
            /\ run.records_synced + run.records_skipped = run.records_fetched
            /\ Cardinality({r \in Recs : copied[r].run = run.started_at})
                   = run.records_synced)

\* C25 witness: a run that skipped one record and upserted another has ended
\* completed.
C25_CompletedWithSkips ==
    /\ run.status = "completed"
    /\ run.records_skipped > 0
    /\ run.records_synced > 0
    /\ \E r \in Recs : copied[r].run = run.started_at

\* The priority-ordered decision table of recommended_action, first matching
\* row; `rest` is what a high_risk customer gets who is neither inactive nor
\* without a next call.
DecisionTable(health_status, c, rest) ==
    CASE health_status = "critical" /\ c.mentioned_cancel
            -> "Urgent: Contact immediately - cancel risk"
      [] health_status = "critical" /\ ~c.mentioned_cancel /\ c.is_delinquent
            -> "Urgent: Resolve payment issue"
      [] health_status = "critical" /\ ~c.mentioned_cancel /\ ~c.is_delinquent
            -> "Urgent: Schedule retention call"
      [] health_status = "high_risk" /\ c.days_since_seen > 30
            -> "Re-engagement campaign needed"
      [] health_status = "high_risk" /\ c.days_since_seen <= 30
                                     /\ c.next_call_date = None
            -> "Schedule check-in call"
      [] health_status = "high_risk" /\ c.days_since_seen <= 30
                                     /\ c.next_call_date # None
            -> rest
      [] health_status = "at_risk"
            -> "Proactive outreach to improve engagement"
      [] health_status = "healthy" /\ c.mrr > 500
            -> "Explore expansion opportunities"
      [] OTHER -> "Maintain current engagement"

\* C26: the recommended_action of every scored customer is the first
\* matching row of the table, every case without a row of its own giving
\* the maintain message.
C26_FirstMatchingRow ==
    (res.computed /\ res.ok) =>
        res.recommended_action.v
            = DecisionTable(res.health_status, cust, "Maintain current engagement")

\* C26 as the calculator has it: the same table with one more row, a
\* high_risk customer seen within 30 days who has a next call gets the
\* monitor-closely message; only a healthy customer with MRR of 500 or less
\* gets the maintain message.
C26_FirstMatchingRowWithMonitor ==
    (res.computed /\ res.ok) =>
        /\ res.recommended_action.v
             = DecisionTable(res.health_status, cust,
                             "Monitor closely and provide proactive support")
        /\ res.recommended_action.v = "Maintain current engagement"
             => res.health_status = "healthy" /\ cust.mrr <= 500

\* C26 witness: a scored critical customer who is both delinquent and has
\* mentioned cancelling gets the cancel-risk message.
C26_CancelBeforeDelinquency ==
    /\ res.computed /\ res.ok
    /\ res.health_status = "critical"
    /\ cust.mentioned_cancel /\ cust.is_delinquent
    /\ res.recommended_action.v = "Urgent: Contact immediately - cancel risk"

\* The signal types in their fixed order, each with its triggering condition
\* on a customer whose fields are known.
TriggeredSignals(c, NOW) ==
    LET Entry(cond, type) == IF cond THEN <<type>> ELSE <<>>
    IN     Entry(c.mentioned_cancel, "cancel_mention")
        \o Entry(c.is_delinquent, "payment_delinquent")
        \o Entry(c.days_since_seen > 30, "inactive")
        \o Entry(c.csat_score # None /\ c.csat_score <= 2, "low_satisfaction")
        \o Entry(c.show_rate # None /\ c.show_rate < 50, "low_show_rate")
        \o Entry(c.open_tickets > 3, "support_volume")
        \o Entry(~c.onboarding_complete /\ days_as_customer(c, NOW) > 60,
                 "onboarding_incomplete")

\* C27: the risk_signals of every scored customer hold exactly one entry for
\* each triggered condition and none for an untriggered one, in the fixed
\* order; a show-rate of 0% is below 50% and triggers low_show_rate.
C27_OneEntryPerTriggeredCondition ==
    (res.computed /\ res.ok) =>
        res.risk_signals.v = TriggeredSignals(cust, res.calculated_at)

\* An alert of the type was sent to the customer less than the type's
\* cooldown ago.
SentWithinCooldown(alert_type) ==
    \E i \in 1..Len(alert_history) :
        /\ alert_history[i].alert_type = alert_type
        /\ now - alert_history[i].sent_at < ALERT_COOLDOWNS[alert_type]

\* C29: an alert of one type never suppresses an alert of another type: when
\* the condition of a type holds after a sync and the alert is skipped as
\* within its cooldown, an alert of that same type was sent to the customer
\* less than the type's cooldown ago.
C29_CooldownPerType ==
    \A t \in AlertTypes :
        ( /\ pc[1].stage = "check"
          /\ alert_condition(t, acust, pc[1].previous)
          /\ skip_alert(t, acust, now) )
        => SentWithinCooldown(t)

\* An engagement_drop alert was posted for the customer.
EngagementDropSent ==
    \E i \in 1..Len(delivered) : delivered[i].alert_type = "engagement_drop"

\* C30: a customer whose days_since_seen was below 14 and who stays inactive
\* until days_since_seen is 30 or more eventually gets an engagement_drop
\* alert, with the syncs running on their daily schedule.
C30_QuietCustomerAlerted ==
    (acust.days_since_seen >= 30) ~> EngagementDropSent

\* The number of new-at-risk alerts posted for the customer.
AtRiskAlerts ==
    Cardinality({i \in 1..Len(delivered) : delivered[i].alert_type = "new_at_risk"})

====
